---- MODULE Spec2Model ----
(***************************************************************************)
(* mouse-leveldb: the ownership layer over the LevelDB C API.              *)
(*                                                                         *)
(* One Database wrapper (src/src/database.rs) and one WriteBatch wrapper   *)
(* (src/src/lib.rs) are driven by a caller through every public operation. *)
(* The native engine is modelled at its boundary: which handles are live,  *)
(* how often each was released, the entries of each batch and the contents *)
(* of the store.  A panic unwinds the caller: after it only the drops of   *)
(* the wrappers still in scope run.                                        *)
(***************************************************************************)
EXTENDS Integers, Sequences, FiniteSets, TLC

(* ------------------------------ bounds --------------------------------- *)

\* number of native database handles the engine hands out in one run
MaxOpens == 2
\* number of native batch handles the engine hands out in one run
MaxCreates == 2
\* number of entries one batch accumulates before it is flushed or cleared
MaxPending == 2

\* the byte strings used as keys (the empty key included) and as values
Keys == {<<>>, <<4>>}
Values == {<<>>, <<7>>}

\* number of Octets the caller of SpecOctets holds at a time
MaxHeld == 2

\* length of the longest value in the stores of SpecOctetsMut
MaxLen == 2

\* puts a thread of SpecThreads collects in its batch before it writes
MaxThreadPuts == 1

\* the error strings the engine reports
Messages == {"IO error", "Corruption"}

(* ------------------------------ state ---------------------------------- *)

VARIABLES
    db,            \* Database.0 : None or the native handle
    dbAlive,       \* the Database wrapper has not been dropped
    batch,         \* WriteBatch.0 : None or the native handle
    batchAlive,    \* the WriteBatch wrapper has not been dropped
    nextDb,        \* engine: the next database handle leveldb_open returns
    liveDb,        \* engine: database handles opened and not closed
    closeCount,    \* engine: leveldb_close calls per database handle
    nextBatch,     \* engine: the next handle leveldb_writebatch_create returns
    liveBatch,     \* engine: batch handles created and not destroyed
    rep,           \* engine: batch handle -> its entries, in order
    destroyCount,  \* engine: leveldb_writebatch_destroy calls per handle
    store,         \* engine: the contents of the store at the path
    pending,       \* caller's record: puts since the last flush/clear/destroy
    expect,        \* caller's record: key -> value of its last flushed put
    octets,        \* the Octets the caller holds, oldest first
    asked,         \* caller's record: the key each held Octets was got with
    valLive,       \* engine: value buffers returned by leveldb_get, not freed
    panicked,      \* a call panicked: the caller is unwinding
    borrows,       \* threads that hold a shared reference to the Database
    tpc,           \* thread -> where it stands in the call it is running
    inflight,      \* thread -> the handle of its engine call in flight, or None
    tbatch,        \* thread -> the entries of its own WriteBatch, or NoBatch
    options,       \* the static OPTIONS: its Lazy cell and the engine's object
    passed,        \* engine: the options leveldb_open was called with
    last           \* the call that ran last and what it returned

vars == <<db, dbAlive, batch, batchAlive, nextDb, liveDb, closeCount,
          nextBatch, liveBatch, rep, destroyCount, store, pending, expect,
          octets, asked, valLive, panicked, borrows, tpc, inflight, tbatch,
          options, passed, last>>

\* Option::None of Database.0 and WriteBatch.0; native handles are 1, 2, ...
None == 0

\* what the store holds for a key: nothing, or a value
Absent == [found |-> FALSE, val |-> <<>>]
Present(v) == [found |-> TRUE, val |-> v]

(* --------------------- the engine, at its boundary --------------------- *)

\* leveldb_writebatch_put: the engine copies key and value and appends them
leveldb_writebatch_put(entries, key, value) == Append(entries, <<key, value>>)

\* leveldb_writebatch_clear: the batch keeps its handle and loses its entries
leveldb_writebatch_clear(entries) == <<>>

RECURSIVE ApplyEntries(_, _)
\* the entries of a batch applied to the store in insertion order
ApplyEntries(st, entries) ==
    IF entries = <<>> THEN st
    ELSE ApplyEntries([st EXCEPT ![Head(entries)[1]] = Present(Head(entries)[2])],
                      Tail(entries))

\* leveldb_write: all entries are applied, or on failure none is
leveldb_write(st, entries, fail) ==
    IF fail THEN st ELSE ApplyEntries(st, entries)

\* leveldb_get: (pointer, length, bytes, error).  A hit returns a copy made
\* with malloc(length), which for length 0 is null or not; a miss returns
\* null with length 0; a failure returns null and sets the error string.
leveldb_get(st, key, fail, nullOnEmpty) ==
    IF fail THEN [pval |-> "null", vallen |-> 0, data |-> <<>>, error |-> TRUE]
    ELSE IF st[key] = Absent
    THEN [pval |-> "null", vallen |-> 0, data |-> <<>>, error |-> FALSE]
    ELSE [pval |-> IF st[key].val = <<>> /\ nullOnEmpty THEN "null" ELSE "alloc",
          vallen |-> Len(st[key].val), data |-> st[key].val, error |-> FALSE]

(* ------------------------------ Octets --------------------------------- *)

\* Octets::new with the null test inverted
OctetsNewInverted(ptr, len, data) ==
    IF ptr # "null"
    THEN [ptr_ |-> "None", len_ |-> len, data |-> <<>>]
    ELSE [ptr_ |-> "Some", len_ |-> len, data |-> data]

\* Octets::new
OctetsNew(ptr, len, data) ==
    IF ptr = "null"
    THEN [ptr_ |-> "None", len_ |-> len, data |-> <<>>]
    ELSE [ptr_ |-> "Some", len_ |-> len, data |-> data]

\* Deref for Octets: the byte view
Deref(o) ==
    IF o.ptr_ = "None" THEN <<>> ELSE SubSeq(o.data, 1, o.len_)

\* DerefMut for Octets: the mutable byte view
DerefMut(o) ==
    IF o.ptr_ = "None" THEN <<>> ELSE SubSeq(o.data, 1, o.len_)

\* a store that appends to the buffer as a growable vector would
StoreByteGrows(o, j, b) ==
    [ptr_ |-> "Some", len_ |-> o.len_ + 1, data |-> Append(o.data, b)]

\* o.deref_mut()[j] = b: the byte is written in place, in the engine's
\* allocation
StoreByte(o, j, b) == [o EXCEPT !.data[j] = b]

\* the value slot of a call that returns no Octets
NoOctets == [ptr_ |-> "None", len_ |-> 0, data |-> <<>>]

(* ------------------------------- Error --------------------------------- *)

\* the null error pointer a call starts with, and a result without an Error
NullPtr == "null"
NoError == "none"

\* error::new: the Error takes over the engine's error string
ErrorNew(errptr) == errptr

(* ----------------------- the record of a call -------------------------- *)

\* op: the operation; res: "Ok", "Err", "Unit" (returned) or "Panic"; calls: the
\* engine calls it made, in order; err: the engine set its error string;
\* preDb, preBatch: what the wrappers held when it was called; prePending: the
\* puts the caller had made into the batch; key, val: the key and the Octets
\* of a get; errptr: the error string the engine left in *errptr; msg: the
\* message of the Error the call returned
Call(op, res, calls, err, key, val) ==
    [op |-> op, res |-> res, calls |-> calls, err |-> err, preDb |-> db,
     preBatch |-> batch, prePending |-> pending, key |-> key, val |-> val,
     errptr |-> NullPtr, msg |-> NoError]

\* Err(error::new(ptr)): a call after the engine wrote errptr; an Err result
\* carries the Error built from that pointer
Reported(call, errptr) ==
    [call EXCEPT !.errptr = errptr,
                 !.msg = IF call.res = "Err" THEN ErrorNew(errptr) ELSE NoError]

\* what the engine leaves in *errptr: null, or its message when it fails
ErrPtr(fail, m) == IF fail THEN m ELSE NullPtr

\* a call that returns no Octets
Plain(op, res, calls, err) == Call(op, res, calls, err, <<>>, NoOctets)

\* the caller goes on to its next call: no panic is unwinding, and the
\* Octets of an earlier get has been dropped (SpecOctets has the caller hold
\* buffers across calls)
Running == ~panicked /\ octets = <<>>

(* ------------------------------ Init ----------------------------------- *)

(* --------------------- threads and the lazy statics -------------------- *)

\* the threads of SpecThreads, the threads of SpecOptions
Threads == {1, 2}
Openers == {1, 2, 3}

\* a WriteBatch that holds no handle
NoBatch == "none"

\* what leveldb_options_create returns: every flag off
EngineDefaults ==
    [create_if_missing |-> FALSE, error_if_exists |-> FALSE, paranoid_checks |-> FALSE]

\* static OPTIONS before its first use: the Lazy cell is empty and the
\* engine has no options object
Uninit == [state |-> "uninit", flags |-> EngineDefaults, created |-> 0, destroyed |-> 0]

\* a process with one thread: no shared reference, no thread at work, no
\* static forced
ProcessInit ==
    /\ borrows = {}
    /\ tpc = [t \in Threads |-> "idle"]
    /\ inflight = [t \in Threads |-> None]
    /\ tbatch = [t \in Threads |-> NoBatch]
    /\ options = Uninit
    /\ passed = {}

\* the state after Database::new and WriteBatch::new, on a fresh store
CallerInit ==
    /\ db = None
    /\ dbAlive = TRUE
    /\ batch = None
    /\ batchAlive = TRUE
    /\ nextDb = 1
    /\ liveDb = {}
    /\ closeCount = [h \in 1..MaxOpens |-> 0]
    /\ nextBatch = 1
    /\ liveBatch = {}
    /\ rep = [h \in 1..MaxCreates |-> <<>>]
    /\ destroyCount = [h \in 1..MaxCreates |-> 0]
    /\ store = [k \in Keys |-> Absent]
    /\ pending = <<>>
    /\ expect = [k \in Keys |-> Absent]
    /\ octets = <<>>
    /\ asked = <<>>
    /\ valLive = 0
    /\ panicked = FALSE
    /\ last = Plain("new", "Unit", <<>>, FALSE)

Init == ProcessInit /\ CallerInit

(* ----------------------------- Database -------------------------------- *)

dbVars == <<db, dbAlive, nextDb, liveDb, closeCount>>
batchVars == <<batch, batchAlive, nextBatch, liveBatch, rep, destroyCount>>
callerVars == <<pending, expect>>
octetsVars == <<octets, asked, valLive>>
processVars == <<borrows, tpc, inflight, tbatch, options, passed>>

\* open without its assertion: an open handle is opened again
OpenAssertSkipped(d) == TRUE

\* assert_eq!(None, self.0) of Database::open
OpenAssert(d) == d = None

\* open storing the returned pointer without looking at the error
OpenBindsAlways(d, ptr, error) == ptr

\* match NonNull::new(error) of Database::open: self.0 = Some(ptr) only on
\* the None arm
OpenBinds(d, ptr, error) == IF error THEN d ELSE ptr

\* Database::open
Open(fail) ==
    /\ Running /\ dbAlive
    /\ IF ~OpenAssert(db)
       THEN /\ panicked' = TRUE
            /\ last' = Plain("open", "Panic", <<>>, FALSE)
            /\ UNCHANGED <<db, nextDb, liveDb>>
       ELSE /\ fail \/ nextDb <= MaxOpens
            /\ db' = OpenBinds(db, nextDb, fail)
            /\ nextDb' = IF fail THEN nextDb ELSE nextDb + 1
            /\ liveDb' = IF fail THEN liveDb ELSE liveDb \cup {nextDb}
            /\ \E m \in Messages :
                  last' = Reported(Plain("open", IF fail THEN "Err" ELSE "Ok",
                                         <<"leveldb_open">>, fail),
                                   ErrPtr(fail, m))
            /\ UNCHANGED panicked
    /\ UNCHANGED <<dbAlive, closeCount, batchVars, store, callerVars, octetsVars, processVars>>

\* close that forgets to reset self.0
DbAfterCloseKept(d) == d

\* what Database::close leaves in self.0 after leveldb_close
DbAfterClose(d) == None

\* the body of Database::close, run by close and by drop
CloseBody(op) ==
    IF db # None
    THEN /\ liveDb' = liveDb \ {db}
         /\ closeCount' = [closeCount EXCEPT ![db] = @ + 1]
         /\ db' = DbAfterClose(db)
         /\ last' = Plain(op, "Unit", <<"leveldb_close">>, FALSE)
    ELSE /\ last' = Plain(op, "Unit", <<>>, FALSE)
         /\ UNCHANGED <<db, liveDb, closeCount>>

\* Database::close
Close ==
    /\ Running /\ dbAlive
    /\ CloseBody("close")
    /\ UNCHANGED <<dbAlive, nextDb, batchVars, store, callerVars, panicked, octetsVars, processVars>>

\* a Database without its Drop: the wrapper goes, the native handle stays
DropDatabaseNoClose ==
    /\ dbAlive
    /\ dbAlive' = FALSE
    /\ last' = Plain("drop_db", "Unit", <<>>, FALSE)
    /\ UNCHANGED <<db, liveDb, closeCount, nextDb, batchVars, store, callerVars,
                   panicked, octetsVars, processVars>>

\* Drop for Database: at scope exit, or while a panic unwinds
DropDatabase ==
    /\ dbAlive
    /\ CloseBody("drop_db")
    /\ dbAlive' = FALSE
    /\ UNCHANGED <<nextDb, batchVars, store, callerVars, panicked, octetsVars, processVars>>

(* ---------------------------- WriteBatch ------------------------------- *)

\* init without its assertion: a held handle is overwritten
InitAssertSkipped(b) == TRUE

\* assert_eq!(None, self.0) of WriteBatch::init
InitAssert(b) == b = None

\* WriteBatch::init.  leveldb_writebatch_create returns a fresh handle, or
\* null when the engine cannot allocate, which the second assert turns into
\* a panic.
BatchInit(isNull) ==
    /\ Running /\ batchAlive
    /\ IF ~InitAssert(batch)
       THEN /\ panicked' = TRUE
            /\ last' = Plain("init", "Panic", <<>>, FALSE)
            /\ UNCHANGED <<batch, nextBatch, liveBatch>>
       ELSE IF isNull
       THEN /\ panicked' = TRUE
            /\ last' = Plain("init", "Panic", <<"leveldb_writebatch_create">>, FALSE)
            /\ UNCHANGED <<batch, nextBatch, liveBatch>>
       ELSE /\ nextBatch <= MaxCreates
            /\ batch' = nextBatch
            /\ nextBatch' = nextBatch + 1
            /\ liveBatch' = liveBatch \cup {nextBatch}
            /\ last' = Plain("init", "Unit", <<"leveldb_writebatch_create">>, FALSE)
            /\ UNCHANGED panicked
    /\ UNCHANGED <<batchAlive, rep, destroyCount, dbVars, store, callerVars, octetsVars, processVars>>

\* put that initializes on every call
PutNeedsInitAlways(b) == TRUE

\* self.0 == None of WriteBatch::put: the handle is allocated on this call
PutNeedsInit(b) == b = None

\* WriteBatch::put: init when there is no handle, then leveldb_writebatch_put
Put(key, value, isNull) ==
    /\ Running /\ batchAlive
    /\ IF PutNeedsInit(batch) /\ ~InitAssert(batch)
       THEN /\ panicked' = TRUE
            /\ last' = Plain("put", "Panic", <<>>, FALSE)
            /\ UNCHANGED <<batch, nextBatch, liveBatch, rep, pending>>
       ELSE IF PutNeedsInit(batch) /\ isNull
       THEN /\ panicked' = TRUE
            /\ last' = Plain("put", "Panic", <<"leveldb_writebatch_create">>, FALSE)
            /\ UNCHANGED <<batch, nextBatch, liveBatch, rep, pending>>
       ELSE IF PutNeedsInit(batch)
       THEN /\ nextBatch <= MaxCreates
            /\ batch' = nextBatch
            /\ nextBatch' = nextBatch + 1
            /\ liveBatch' = liveBatch \cup {nextBatch}
            /\ rep' = [rep EXCEPT ![nextBatch] = leveldb_writebatch_put(@, key, value)]
            /\ pending' = Append(pending, <<key, value>>)
            /\ last' = Plain("put", "Unit",
                             <<"leveldb_writebatch_create", "leveldb_writebatch_put">>,
                             FALSE)
            /\ UNCHANGED panicked
       ELSE /\ Len(rep[batch]) < MaxPending
            /\ rep' = [rep EXCEPT ![batch] = leveldb_writebatch_put(@, key, value)]
            /\ pending' = Append(pending, <<key, value>>)
            /\ last' = Plain("put", "Unit", <<"leveldb_writebatch_put">>, FALSE)
            /\ UNCHANGED <<batch, nextBatch, liveBatch, panicked>>
    /\ UNCHANGED <<batchAlive, destroyCount, dbVars, store, expect, octetsVars, processVars>>

\* a clear that submits the pending entries to the store before dropping them
ClearFlushes ==
    /\ Running /\ batchAlive
    /\ IF batch # None
       THEN /\ rep' = [rep EXCEPT ![batch] = leveldb_writebatch_clear(@)]
            /\ store' = ApplyEntries(store, rep[batch])
            /\ last' = Plain("clear", "Unit", <<"leveldb_writebatch_clear">>, FALSE)
       ELSE /\ last' = Plain("clear", "Unit", <<>>, FALSE)
            /\ UNCHANGED <<rep, store>>
    /\ pending' = <<>>
    /\ UNCHANGED <<batch, batchAlive, nextBatch, liveBatch, destroyCount, dbVars,
                   expect, panicked, octetsVars, processVars>>

\* WriteBatch::clear
Clear ==
    /\ Running /\ batchAlive
    /\ IF batch # None
       THEN /\ rep' = [rep EXCEPT ![batch] = leveldb_writebatch_clear(@)]
            /\ last' = Plain("clear", "Unit", <<"leveldb_writebatch_clear">>, FALSE)
       ELSE /\ last' = Plain("clear", "Unit", <<>>, FALSE)
            /\ UNCHANGED rep
    /\ pending' = <<>>
    /\ UNCHANGED <<batch, batchAlive, nextBatch, liveBatch, destroyCount, dbVars,
                   store, expect, panicked, octetsVars, processVars>>

\* destroy that forgets to reset self.0
BatchAfterDestroyKept(b) == b

\* what WriteBatch::destroy leaves in self.0 after leveldb_writebatch_destroy
BatchAfterDestroy(b) == None

\* the body of WriteBatch::destroy, run by destroy and by drop
DestroyBody(op) ==
    /\ IF batch # None
       THEN /\ liveBatch' = liveBatch \ {batch}
            /\ rep' = [rep EXCEPT ![batch] = <<>>]
            /\ destroyCount' = [destroyCount EXCEPT ![batch] = @ + 1]
            /\ batch' = BatchAfterDestroy(batch)
            /\ last' = Plain(op, "Unit", <<"leveldb_writebatch_destroy">>, FALSE)
       ELSE /\ last' = Plain(op, "Unit", <<>>, FALSE)
            /\ UNCHANGED <<batch, liveBatch, rep, destroyCount>>
    /\ pending' = <<>>

\* WriteBatch::destroy
Destroy ==
    /\ Running /\ batchAlive
    /\ DestroyBody("destroy")
    /\ UNCHANGED <<batchAlive, nextBatch, dbVars, store, expect, panicked, octetsVars, processVars>>

\* Drop for WriteBatch: at scope exit, or while a panic unwinds
DropBatch ==
    /\ batchAlive
    /\ DestroyBody("drop_batch")
    /\ batchAlive' = FALSE
    /\ UNCHANGED <<nextBatch, dbVars, store, expect, panicked, octetsVars, processVars>>

(* --------------------------- write and get ----------------------------- *)

\* the handle passed on without the unwrap
UnwrapUnchecked(d) == TRUE

\* database::as_ptr(db).unwrap() succeeds
Unwrap(d) == d # None

\* write ignoring the error string
WriteResultIgnoresError(error) == "Ok"

\* match NonNull::new(error) of write
WriteResult(error) == IF error THEN "Err" ELSE "Ok"

\* the keys put in a sequence of puts, and the value of the last put of a key
PutKeys(puts) == {puts[i][1] : i \in 1..Len(puts)}
LastPut(puts, key) ==
    LET at == {i \in 1..Len(puts) : puts[i][1] = key}
        top == CHOOSE i \in at : \A j \in at : j <= i
    IN  puts[top][2]

\* the clear moved in front of leveldb_write: the engine receives no entry
WriteSubmitsCleared(entries) == leveldb_writebatch_clear(entries)

\* the clear skipped when leveldb_write reported an error
WriteClearsOnSuccess(entries, error) ==
    IF error THEN entries ELSE leveldb_writebatch_clear(entries)

\* the batch as leveldb_write receives it: the clear comes after the write
WriteSubmits(entries) == entries

\* leveldb_writebatch_clear(batch) of write: whatever leveldb_write reported
WriteClears(entries, error) == leveldb_writebatch_clear(entries)

\* the None arm flushing an empty batch instead of returning at once
WriteNoneFlushes(fail) ==
    IF ~Unwrap(db)
    THEN /\ panicked' = TRUE
         /\ last' = Plain("write", "Panic", <<>>, FALSE)
         /\ UNCHANGED <<rep, store, callerVars>>
    ELSE /\ store' = leveldb_write(store, <<>>, fail)
         /\ \E m \in Messages :
               last' = Reported(Plain("write", WriteResult(fail), <<"leveldb_write">>,
                                      fail),
                                ErrPtr(fail, m))
         /\ UNCHANGED <<rep, callerVars, panicked>>

\* None => Ok(()) of write: nothing to flush
WriteNone(fail) ==
    /\ last' = Plain("write", "Ok", <<>>, FALSE)
    /\ UNCHANGED <<rep, store, callerVars, panicked>>

\* write
Write(fail) ==
    /\ Running /\ dbAlive /\ batchAlive
    /\ IF batch = None
       THEN WriteNone(fail)
       ELSE IF ~Unwrap(db)
       THEN /\ panicked' = TRUE
            /\ last' = Plain("write", "Panic", <<>>, FALSE)
            /\ UNCHANGED <<rep, store, callerVars>>
       ELSE /\ store' = leveldb_write(store, WriteSubmits(rep[batch]), fail)
            /\ rep' = [rep EXCEPT ![batch] = WriteClears(@, fail)]
            /\ \E m \in Messages :
                  last' = Reported(Plain("write", WriteResult(fail),
                                         <<"leveldb_write", "leveldb_writebatch_clear">>,
                                         fail),
                                   ErrPtr(fail, m))
            /\ pending' = <<>>
            /\ expect' = IF fail THEN expect
                         ELSE [k \in Keys |-> IF k \in PutKeys(pending)
                                              THEN Present(LastPut(pending, k))
                                              ELSE expect[k]]
            /\ UNCHANGED panicked
    /\ UNCHANGED <<batch, batchAlive, nextBatch, liveBatch, destroyCount, dbVars, octetsVars, processVars>>

\* get taking a null value pointer for a failure
GetResultNullIsErr(r, key) ==
    IF r.error \/ r.pval = "null"
    THEN Call("get", "Err", <<"leveldb_get">>, r.error, key, NoOctets)
    ELSE Call("get", "Ok", <<"leveldb_get">>, FALSE, key,
              OctetsNew(r.pval, r.vallen, r.data))

\* match NonNull::new(error) of get: an error, or the Octets of the result
GetResult(r, key) ==
    IF r.error
    THEN Call("get", "Err", <<"leveldb_get">>, TRUE, key, NoOctets)
    ELSE Call("get", "Ok", <<"leveldb_get">>, FALSE, key,
              OctetsNew(r.pval, r.vallen, r.data))

\* a call that hands its Octets to the caller whatever its result
ReturnedAlways(call) == <<call.val>>

\* the Octets a call hands to the caller: the one of Ok(Octets), or none
Returned(call) == IF call.res = "Ok" THEN <<call.val>> ELSE <<>>

\* the body of get
GetBody(key, fail, nullOnEmpty) ==
    /\ dbAlive
    /\ IF ~Unwrap(db)
       THEN /\ panicked' = TRUE
            /\ last' = Call("get", "Panic", <<>>, FALSE, key, NoOctets)
            /\ UNCHANGED octetsVars
       ELSE LET r == leveldb_get(store, key, fail, nullOnEmpty) IN
            /\ \E m \in Messages :
                  last' = Reported(GetResult(r, key), ErrPtr(fail, m))
            /\ octets' = octets \o Returned(GetResult(r, key))
            /\ asked' = IF Returned(GetResult(r, key)) = <<>> THEN asked
                        ELSE Append(asked, key)
            /\ valLive' = valLive + (IF r.pval = "alloc" THEN 1 ELSE 0)
            /\ UNCHANGED panicked
    /\ UNCHANGED <<dbVars, batchVars, store, callerVars, processVars>>

\* get
Get(key, fail, nullOnEmpty) == Running /\ GetBody(key, fail, nullOnEmpty)

\* get by a caller that still holds the Octets of an earlier get
GetOther(key, fail, nullOnEmpty) ==
    /\ ~panicked
    /\ octets # <<>> /\ Len(octets) < MaxHeld
    /\ GetBody(key, fail, nullOnEmpty)

\* equality as #[derive(PartialEq)] would give it: field by field
OctetsEqDerived(a, b) == a.ptr_ = b.ptr_ /\ a.len_ = b.len_ /\ Deref(a) = Deref(b)

\* PartialEq for Octets: compares the borrowed slices
OctetsEq(a, b) == Deref(a) = Deref(b)

\* the caller compares the two Octets it holds
Eq ==
    /\ ~panicked
    /\ Len(octets) = 2
    /\ last' = Call("eq", IF OctetsEq(octets[1], octets[2]) THEN "True" ELSE "False",
                    <<>>, FALSE, asked[1], octets[1])
    /\ UNCHANGED <<dbVars, batchVars, store, callerVars, octetsVars, processVars, panicked>>

\* an Octets whose drop never frees
OctetsDropFreesNever(o) == FALSE

\* if let Some(ptr) = self.ptr_ of Drop for Octets
OctetsDropFrees(o) == o.ptr_ = "Some"

\* a sequence without its i-th element
Without(seq, i) == SubSeq(seq, 1, i - 1) \o SubSeq(seq, i + 1, Len(seq))

\* Drop for Octets, of the i-th Octets the caller holds
DropOctets(i) ==
    /\ i \in 1..Len(octets)
    /\ IF OctetsDropFrees(octets[i])
       THEN /\ valLive' = valLive - 1
            /\ last' = Call("drop_octets", "Unit", <<"leveldb_free">>, FALSE,
                            asked[i], octets[i])
       ELSE /\ last' = Call("drop_octets", "Unit", <<>>, FALSE, asked[i], octets[i])
            /\ UNCHANGED valLive
    /\ octets' = Without(octets, i)
    /\ asked' = Without(asked, i)
    /\ UNCHANGED <<dbVars, batchVars, store, callerVars, panicked, processVars>>

(* --------------------------- specification ----------------------------- *)

Next ==
    \/ \E fail \in BOOLEAN : Open(fail)
    \/ Close
    \/ DropDatabase
    \/ \E isNull \in BOOLEAN : BatchInit(isNull)
    \/ \E key \in Keys, value \in Values, isNull \in BOOLEAN : Put(key, value, isNull)
    \/ Clear
    \/ Destroy
    \/ DropBatch
    \/ \E fail \in BOOLEAN : Write(fail)
    \/ \E key \in Keys, fail \in BOOLEAN, nullOnEmpty \in BOOLEAN :
          Get(key, fail, nullOnEmpty)
    \/ \E i \in 1..MaxHeld : DropOctets(i)

Spec == Init /\ [][Next]_vars

\* The Octets specification: a process that has opened a database with any
\* contents, and holds up to MaxHeld results of get at a time.
InitOctets ==
    /\ ProcessInit
    /\ db = 1 /\ dbAlive = TRUE
    /\ nextDb = 2 /\ liveDb = {1}
    /\ closeCount = [h \in 1..MaxOpens |-> 0]
    /\ batch = None /\ batchAlive = TRUE
    /\ nextBatch = 1 /\ liveBatch = {}
    /\ rep = [h \in 1..MaxCreates |-> <<>>]
    /\ destroyCount = [h \in 1..MaxCreates |-> 0]
    /\ store \in [Keys -> {Absent} \cup {Present(v) : v \in Values}]
    /\ expect = store
    /\ pending = <<>>
    /\ octets = <<>>
    /\ asked = <<>>
    /\ valLive = 0
    /\ panicked = FALSE
    /\ last = [Plain("open", "Ok", <<"leveldb_open">>, FALSE) EXCEPT !.preDb = None]

NextOctets ==
    \/ \E k \in Keys, fail \in BOOLEAN, nullOnEmpty \in BOOLEAN :
          Get(k, fail, nullOnEmpty)
    \/ \E k \in Keys, fail \in BOOLEAN, nullOnEmpty \in BOOLEAN :
          GetOther(k, fail, nullOnEmpty)
    \/ Eq
    \/ \E i \in 1..MaxHeld : DropOctets(i)

SpecOctets == InitOctets /\ [][NextOctets]_vars

\* The caller writes the byte b at index j of the mutable view of the i-th
\* Octets it holds.
StoreThrough(i, j, b) ==
    /\ ~panicked
    /\ i \in 1..Len(octets)
    /\ j \in 1..Len(DerefMut(octets[i]))
    /\ octets' = [octets EXCEPT ![i] = StoreByte(@, j, b)]
    /\ last' = Call("store", "Unit", <<>>, FALSE, asked[i], octets[i])
    /\ UNCHANGED <<dbVars, batchVars, store, callerVars, asked, valLive, panicked,
                   processVars>>

\* the values of the stores of SpecOctetsMut, and the bytes its caller writes
LongValues == {SubSeq(<<7, 8, 6, 5>>, 1, n) : n \in 0..MaxLen}
WrittenBytes == {9}

\* The mutable-view specification: as SpecOctets, over stores with longer
\* values, with a caller that also writes through the mutable view.
InitOctetsMut ==
    /\ ProcessInit
    /\ db = 1 /\ dbAlive = TRUE
    /\ nextDb = 2 /\ liveDb = {1}
    /\ closeCount = [h \in 1..MaxOpens |-> 0]
    /\ batch = None /\ batchAlive = TRUE
    /\ nextBatch = 1 /\ liveBatch = {}
    /\ rep = [h \in 1..MaxCreates |-> <<>>]
    /\ destroyCount = [h \in 1..MaxCreates |-> 0]
    /\ store \in [Keys -> {Absent} \cup {Present(v) : v \in LongValues}]
    /\ expect = store
    /\ pending = <<>>
    /\ octets = <<>>
    /\ asked = <<>>
    /\ valLive = 0
    /\ panicked = FALSE
    /\ last = [Plain("open", "Ok", <<"leveldb_open">>, FALSE) EXCEPT !.preDb = None]

NextOctetsMut ==
    \/ NextOctets
    \/ \E i \in 1..MaxHeld, j \in 1..MaxLen, b \in WrittenBytes : StoreThrough(i, j, b)

SpecOctetsMut == InitOctetsMut /\ [][NextOctetsMut]_vars

(* ------------------- the WriteBatch of write_batch.rs ------------------ *)

\* The struct of write_batch.rs holds its native handle in ptr, an Option
\* like self.0 of the WriteBatch of lib.rs (its len_ is set to 0 by new and
\* never read or written again), so its operations are written on the same
\* variables: batch is self.ptr.  Its put makes no assertion on what
\* leveldb_writebatch_create returns; the operations are modelled for an
\* engine whose allocation succeeds.

\* a destroy that forgets to reset self.ptr
LegacyAfterDestroyKept(b) == b

\* self.ptr = None of destroy
LegacyAfterDestroy(b) == None

\* put of write_batch.rs: create when self.ptr is None, then
\* leveldb_writebatch_put
LegacyPut(key, value) ==
    /\ Running /\ batchAlive
    /\ IF batch = None
       THEN /\ nextBatch <= MaxCreates
            /\ batch' = nextBatch
            /\ nextBatch' = nextBatch + 1
            /\ liveBatch' = liveBatch \cup {nextBatch}
            /\ rep' = [rep EXCEPT ![nextBatch] = leveldb_writebatch_put(@, key, value)]
            /\ last' = Plain("put", "Unit",
                             <<"leveldb_writebatch_create", "leveldb_writebatch_put">>,
                             FALSE)
       ELSE /\ Len(rep[batch]) < MaxPending
            /\ rep' = [rep EXCEPT ![batch] = leveldb_writebatch_put(@, key, value)]
            /\ last' = Plain("put", "Unit", <<"leveldb_writebatch_put">>, FALSE)
            /\ UNCHANGED <<batch, nextBatch, liveBatch>>
    /\ pending' = Append(pending, <<key, value>>)
    /\ UNCHANGED <<batchAlive, destroyCount, dbVars, store, expect, panicked, octetsVars, processVars>>

\* clear of write_batch.rs
LegacyClear ==
    /\ Running /\ batchAlive
    /\ IF batch # None
       THEN /\ rep' = [rep EXCEPT ![batch] = leveldb_writebatch_clear(@)]
            /\ last' = Plain("clear", "Unit", <<"leveldb_writebatch_clear">>, FALSE)
       ELSE /\ last' = Plain("clear", "Unit", <<>>, FALSE)
            /\ UNCHANGED rep
    /\ pending' = <<>>
    /\ UNCHANGED <<batch, batchAlive, nextBatch, liveBatch, destroyCount, dbVars,
                   store, expect, panicked, octetsVars, processVars>>

\* the body of destroy of write_batch.rs, run by destroy and by drop
LegacyDestroyBody(op) ==
    /\ IF batch # None
       THEN /\ liveBatch' = liveBatch \ {batch}
            /\ rep' = [rep EXCEPT ![batch] = <<>>]
            /\ destroyCount' = [destroyCount EXCEPT ![batch] = @ + 1]
            /\ batch' = LegacyAfterDestroy(batch)
            /\ last' = Plain(op, "Unit", <<"leveldb_writebatch_destroy">>, FALSE)
       ELSE /\ last' = Plain(op, "Unit", <<>>, FALSE)
            /\ UNCHANGED <<batch, liveBatch, rep, destroyCount>>
    /\ pending' = <<>>

\* destroy of write_batch.rs
LegacyDestroy ==
    /\ Running /\ batchAlive
    /\ LegacyDestroyBody("destroy")
    /\ UNCHANGED <<batchAlive, nextBatch, dbVars, store, expect, panicked, octetsVars, processVars>>

\* Drop of write_batch.rs
LegacyDrop ==
    /\ batchAlive
    /\ LegacyDestroyBody("drop_batch")
    /\ batchAlive' = FALSE
    /\ UNCHANGED <<nextBatch, dbVars, store, expect, panicked, octetsVars, processVars>>

\* The two WriteBatch implementations side by side: from every state either
\* implementation runs the next operation.
NextLegacy ==
    \/ \E key \in Keys, value \in Values : Put(key, value, FALSE)
    \/ \E key \in Keys, value \in Values : LegacyPut(key, value)
    \/ Clear
    \/ LegacyClear
    \/ Destroy
    \/ LegacyDestroy
    \/ DropBatch
    \/ LegacyDrop

SpecLegacy == Init /\ [][NextLegacy]_vars

(* ------------------------- the static OPTIONS -------------------------- *)

\* the state of the single-threaded caller, which the threads below leave
\* alone
callVars == <<batchVars, callerVars, octetsVars, panicked, last>>

\* an Options::new that leaves the paranoid checks off
OptionsNewFlagsLax ==
    [create_if_missing |-> TRUE, error_if_exists |-> FALSE, paranoid_checks |-> FALSE]

\* the three leveldb_options_set_* calls of Options::new
OptionsNewFlags ==
    [create_if_missing |-> TRUE, error_if_exists |-> FALSE, paranoid_checks |-> TRUE]

\* Database::open reaches OPTIONS.as_ptr(), on a Database of the thread's own
OpenBegin(t) ==
    /\ tpc[t] = "idle"
    /\ tpc' = [tpc EXCEPT ![t] = "force"]
    /\ UNCHANGED <<dbVars, store, callVars, borrows, inflight, tbatch, options, passed>>

\* Lazy::force: the value when it is there; the first thread to come runs
\* the initializer, a thread that comes while it runs waits, and a thread
\* that comes after it panicked panics
LazyForce(t) ==
    /\ tpc[t] = "force"
    /\ options.state # "running"
    /\ IF options.state = "ready"
       THEN /\ tpc' = [tpc EXCEPT ![t] = "call"]
            /\ UNCHANGED options
       ELSE IF options.state = "uninit"
       THEN /\ tpc' = [tpc EXCEPT ![t] = "create"]
            /\ options' = [options EXCEPT !.state = "running"]
       ELSE /\ tpc' = [tpc EXCEPT ![t] = "panicked"]
            /\ UNCHANGED options
    /\ UNCHANGED <<dbVars, store, callVars, borrows, inflight, tbatch, passed>>

\* Options::new: leveldb_options_create and the assertion on its result
OptionsCreate(t, isNull) ==
    /\ tpc[t] = "create"
    /\ IF isNull
       THEN /\ tpc' = [tpc EXCEPT ![t] = "panicked"]
            /\ options' = [options EXCEPT !.state = "poisoned"]
       ELSE /\ tpc' = [tpc EXCEPT ![t] = "set_create_if_missing"]
            /\ options' = [options EXCEPT !.created = @ + 1, !.flags = EngineDefaults]
    /\ UNCHANGED <<dbVars, store, callVars, borrows, inflight, tbatch, passed>>

\* Options::new: leveldb_options_set_create_if_missing(ptr, TRUE)
SetCreateIfMissing(t) ==
    /\ tpc[t] = "set_create_if_missing"
    /\ options' = [options EXCEPT
                      !.flags.create_if_missing = OptionsNewFlags.create_if_missing]
    /\ tpc' = [tpc EXCEPT ![t] = "set_error_if_exists"]
    /\ UNCHANGED <<dbVars, store, callVars, borrows, inflight, tbatch, passed>>

\* Options::new: leveldb_options_set_error_if_exists(ptr, FALSE)
SetErrorIfExists(t) ==
    /\ tpc[t] = "set_error_if_exists"
    /\ options' = [options EXCEPT
                      !.flags.error_if_exists = OptionsNewFlags.error_if_exists]
    /\ tpc' = [tpc EXCEPT ![t] = "set_paranoid_checks"]
    /\ UNCHANGED <<dbVars, store, callVars, borrows, inflight, tbatch, passed>>

\* Options::new: leveldb_options_set_paranoid_checks(ptr, TRUE)
SetParanoidChecks(t) ==
    /\ tpc[t] = "set_paranoid_checks"
    /\ options' = [options EXCEPT
                      !.flags.paranoid_checks = OptionsNewFlags.paranoid_checks]
    /\ tpc' = [tpc EXCEPT ![t] = "store"]
    /\ UNCHANGED <<dbVars, store, callVars, borrows, inflight, tbatch, passed>>

\* the initializer returned: the Lazy cell holds the Options
LazyStore(t) ==
    /\ tpc[t] = "store"
    /\ options' = [options EXCEPT !.state = "ready"]
    /\ tpc' = [tpc EXCEPT ![t] = "call"]
    /\ UNCHANGED <<dbVars, store, callVars, borrows, inflight, tbatch, passed>>

\* leveldb_open(OPTIONS.as_ptr(), ..): the engine reads the options object
OpenCall(t) ==
    /\ tpc[t] = "call"
    /\ passed' = passed \cup {[obj |-> options.created, flags |-> options.flags]}
    /\ tpc' = [tpc EXCEPT ![t] = "idle"]
    /\ UNCHANGED <<dbVars, store, callVars, borrows, inflight, tbatch, options>>

\* the thread ends; a static is not dropped
OpenerExit(t) ==
    /\ tpc[t] = "idle"
    /\ tpc' = [tpc EXCEPT ![t] = "done"]
    /\ UNCHANGED <<dbVars, store, callVars, borrows, inflight, tbatch, options, passed>>

\* The OPTIONS specification: threads that each open databases of their own.
InitOptions ==
    /\ CallerInit
    /\ borrows = {}
    /\ tpc = [t \in Openers |-> "idle"]
    /\ inflight = [t \in Openers |-> None]
    /\ tbatch = [t \in Openers |-> NoBatch]
    /\ options = Uninit
    /\ passed = {}

NextOptions ==
    \E t \in Openers :
        \/ OpenBegin(t)
        \/ LazyForce(t)
        \/ \E isNull \in BOOLEAN : OptionsCreate(t, isNull)
        \/ SetCreateIfMissing(t)
        \/ SetErrorIfExists(t)
        \/ SetParanoidChecks(t)
        \/ LazyStore(t)
        \/ OpenCall(t)
        \/ OpenerExit(t)

SpecOptions == InitOptions /\ [][NextOptions]_vars

(* ------------------ threads that share one Database ------------------- *)

\* The owner of the Database lends shared references to threads (scoped
\* threads, or clones of an Arc).  get and write take &Database; open, close
\* and drop take &mut self, which the compiler grants only while no shared
\* reference is alive.  An engine call of a thread is in flight from its
\* begin step to its end step; inflight holds the handle it was given.

\* a close that would take &self
ExclusiveAccessShared(b) == TRUE

\* &mut self of Database::open, close and drop: no shared reference is alive
ExclusiveAccess(b) == b = {}

\* the values the threads put
ThreadValues == {<<7>>}

\* the owner lends a reference to a new thread, which starts with a new
\* WriteBatch
Lend(t) ==
    /\ Running /\ dbAlive
    /\ t \notin borrows
    /\ borrows' = borrows \cup {t}
    /\ UNCHANGED <<dbVars, store, callVars, tpc, inflight, tbatch, options, passed>>

\* the thread ends, or unwinds after a panic: its WriteBatch and its
\* reference are dropped
Release(t) ==
    /\ t \in borrows
    /\ tpc[t] \in {"idle", "panicked"}
    /\ borrows' = borrows \ {t}
    /\ tpc' = [tpc EXCEPT ![t] = "idle"]
    /\ tbatch' = [tbatch EXCEPT ![t] = NoBatch]
    /\ UNCHANGED <<dbVars, store, callVars, inflight, options, passed>>

\* WriteBatch::put on the thread's own batch
ThreadPut(t, key, value) ==
    /\ t \in borrows /\ tpc[t] = "idle"
    /\ IF tbatch[t] = NoBatch
       THEN tbatch' = [tbatch EXCEPT ![t] = leveldb_writebatch_put(<<>>, key, value)]
       ELSE /\ Len(tbatch[t]) < MaxThreadPuts
            /\ tbatch' = [tbatch EXCEPT ![t] = leveldb_writebatch_put(@, key, value)]
    /\ UNCHANGED <<dbVars, store, callVars, borrows, tpc, inflight, options, passed>>

\* write up to its leveldb_write call: Ok at once for a batch without a
\* handle, a panic when the Database holds no handle
ThreadWriteBegin(t) ==
    /\ t \in borrows /\ tpc[t] = "idle"
    /\ IF tbatch[t] = NoBatch
       THEN UNCHANGED <<tpc, inflight>>
       ELSE IF ~Unwrap(db)
       THEN /\ tpc' = [tpc EXCEPT ![t] = "panicked"]
            /\ UNCHANGED inflight
       ELSE /\ tpc' = [tpc EXCEPT ![t] = "write"]
            /\ inflight' = [inflight EXCEPT ![t] = db]
    /\ UNCHANGED <<dbVars, store, callVars, borrows, tbatch, options, passed>>

\* leveldb_write returns; leveldb_writebatch_clear; the result
ThreadWriteEnd(t, fail) ==
    /\ tpc[t] = "write"
    /\ store' = leveldb_write(store, WriteSubmits(tbatch[t]), fail)
    /\ tbatch' = [tbatch EXCEPT ![t] = WriteClears(@, fail)]
    /\ tpc' = [tpc EXCEPT ![t] = "idle"]
    /\ inflight' = [inflight EXCEPT ![t] = None]
    /\ UNCHANGED <<dbVars, callVars, borrows, options, passed>>

\* get up to its leveldb_get call
ThreadGetBegin(t) ==
    /\ t \in borrows /\ tpc[t] = "idle"
    /\ IF ~Unwrap(db)
       THEN /\ tpc' = [tpc EXCEPT ![t] = "panicked"]
            /\ UNCHANGED inflight
       ELSE /\ tpc' = [tpc EXCEPT ![t] = "get"]
            /\ inflight' = [inflight EXCEPT ![t] = db]
    /\ UNCHANGED <<dbVars, store, callVars, borrows, tbatch, options, passed>>

\* leveldb_get returns; the thread drops the Octets
ThreadGetEnd(t) ==
    /\ tpc[t] = "get"
    /\ tpc' = [tpc EXCEPT ![t] = "idle"]
    /\ inflight' = [inflight EXCEPT ![t] = None]
    /\ UNCHANGED <<dbVars, store, callVars, borrows, tbatch, options, passed>>

\* Database::close, open and drop by the owner
OwnerClose == ExclusiveAccess(borrows) /\ Close
OwnerOpen(fail) == ExclusiveAccess(borrows) /\ Open(fail)
OwnerDrop == ExclusiveAccess(borrows) /\ DropDatabase

\* The threads specification: an open Database that its owner has lent to
\* every thread.
InitThreads ==
    /\ db = 1 /\ dbAlive = TRUE
    /\ nextDb = 2 /\ liveDb = {1}
    /\ closeCount = [h \in 1..MaxOpens |-> 0]
    /\ batch = None /\ batchAlive = TRUE
    /\ nextBatch = 1 /\ liveBatch = {}
    /\ rep = [h \in 1..MaxCreates |-> <<>>]
    /\ destroyCount = [h \in 1..MaxCreates |-> 0]
    /\ store = [k \in Keys |-> Absent]
    /\ expect = store
    /\ pending = <<>>
    /\ octets = <<>>
    /\ asked = <<>>
    /\ valLive = 0
    /\ panicked = FALSE
    /\ last = [Plain("open", "Ok", <<"leveldb_open">>, FALSE) EXCEPT !.preDb = None]
    /\ borrows = Threads
    /\ tpc = [t \in Threads |-> "idle"]
    /\ inflight = [t \in Threads |-> None]
    /\ tbatch = [t \in Threads |-> NoBatch]
    /\ options = Uninit
    /\ passed = {}

NextThreads ==
    \/ \E t \in Threads : Lend(t)
    \/ \E t \in Threads : Release(t)
    \/ \E t \in Threads, key \in Keys, value \in ThreadValues : ThreadPut(t, key, value)
    \/ \E t \in Threads : ThreadWriteBegin(t)
    \/ \E t \in Threads, fail \in BOOLEAN : ThreadWriteEnd(t, fail)
    \/ \E t \in Threads : ThreadGetBegin(t)
    \/ \E t \in Threads : ThreadGetEnd(t)
    \/ OwnerClose
    \/ \E fail \in BOOLEAN : OwnerOpen(fail)
    \/ OwnerDrop

SpecThreads == InitThreads /\ [][NextThreads]_vars

(* ------------------------------ claims --------------------------------- *)

\* C1: open on a handle that is already Open panics before any engine call
\* is made, returns neither Ok nor Err, and the handle keeps the native
\* handle it had, which is still open in the engine.
C1_OpenOnOpenPanics ==
    (last.op = "open" /\ last.preDb # None) =>
        /\ last.res = "Panic"
        /\ last.calls = <<>>
        /\ db = last.preDb
        /\ db \in liveDb

C1_Witness ==
    last.op = "open" /\ last.preDb # None /\ last.res = "Panic" /\ db \in liveDb

\* C2: write on an Unopened db panics whatever the batch holds, an Empty
\* batch included, and returns neither Ok nor Err.
C2_WriteOnUnopenedPanics ==
    (last.op = "write" /\ last.preDb = None) => last.res = "Panic"

\* C3: get on an Unopened db panics for every key, before any engine lookup
\* is made, and returns neither Ok nor Err.
C3_GetOnUnopenedPanics ==
    (last.op = "get" /\ last.preDb = None) =>
        /\ last.res = "Panic"
        /\ last.calls = <<>>

C3_Witness ==
    /\ last.op = "get" /\ last.preDb = None /\ last.res = "Panic"
    /\ nextDb > 1 /\ last.key # <<>>

\* C4: whenever write returns, with Ok or with Err, on an open db and a batch
\* holding a native handle, the batch keeps its handle and has no pending
\* entry.  Hence the batch always holds exactly the puts made since the last
\* returned write (or clear), and the store holds for every key the value of
\* its last put flushed by a successful write: a later put and write replay
\* no entry of an earlier write, failed or not.
C4_BatchEmptyAfterWrite ==
    /\ (last.op = "write" /\ last.res \in {"Ok", "Err"} /\ last.preDb # None
            /\ last.preBatch # None) =>
          /\ batch = last.preBatch
          /\ batch \in liveBatch
          /\ rep[batch] = <<>>
    /\ (batchAlive /\ batch # None) => rep[batch] = pending
    /\ store = expect

C4_Witness ==
    /\ last.op = "write" /\ last.res = "Err" /\ last.preDb # None
    /\ last.preBatch # None /\ last.prePending # <<>>
    /\ rep[batch] = <<>>
    /\ \E k \in Keys : expect[k].found

\* C5: after put(k, v) and a successful write, with no later write touching
\* k, get(db, k) for a non-empty key k returns Ok with a buffer whose bytes
\* equal v exactly, the empty v included; it returns Err only when the engine
\* reports a failure of that lookup itself.
C5_WriteThenRead ==
    (last.op = "get" /\ last.preDb # None /\ last.key # <<>>
        /\ expect[last.key].found) =>
          /\ last.res = (IF last.err THEN "Err" ELSE "Ok")
          /\ ~last.err =>
                /\ Deref(last.val) = expect[last.key].val
                /\ last.val.len_ = Len(expect[last.key].val)

C5_Witness ==
    /\ last.op = "get" /\ last.res = "Ok" /\ last.key # <<>>
    /\ expect[last.key].found
    /\ Deref(last.val) = <<7>>
    /\ \E k \in Keys : k # last.key /\ expect[k] = Present(<<>>)

\* C6: a batch retains every put, duplicates of a key included, in insertion
\* order, and a successful write applies them in that order: for every key
\* put in the batch the store then holds the value of the last put of that
\* key, and get returns it.
C6_LastPutWins ==
    /\ (batchAlive /\ batch # None) =>
          /\ Len(rep[batch]) = Len(pending)
          /\ \A i \in 1..Len(pending) : rep[batch][i] = pending[i]
    /\ (last.op = "write" /\ last.res = "Ok" /\ last.preBatch # None) =>
          \A k \in PutKeys(last.prePending) :
              store[k] = Present(LastPut(last.prePending, k))
    /\ (last.op = "get" /\ last.res = "Ok") =>
          Deref(last.val) = (IF expect[last.key].found THEN expect[last.key].val
                             ELSE <<>>)

C6_Witness ==
    /\ last.op = "write" /\ last.res = "Ok"
    /\ \E i, j \in 1..Len(last.prePending) :
          /\ i < j
          /\ last.prePending[i][1] = last.prePending[j][1]
          /\ last.prePending[i][2] # last.prePending[j][2]
          /\ store[last.prePending[j][1]] = Present(last.prePending[j][2])

\* C7: get on an open db for a key no successful write has stored returns Ok
\* with an empty buffer (no pointer, length zero, empty view); it returns Err
\* exactly when the engine sets its error string.
C7_MissIsNotAnError ==
    (last.op = "get" /\ last.preDb # None /\ ~expect[last.key].found) =>
        /\ last.res \in {"Ok", "Err"}
        /\ last.res = "Err" <=> last.err
        /\ last.res = "Ok" =>
              /\ last.val.ptr_ = "None"
              /\ last.val.len_ = 0
              /\ Deref(last.val) = <<>>

C7_Witness ==
    /\ last.op = "get" /\ last.res = "Ok" /\ ~expect[last.key].found
    /\ last.val.ptr_ = "None"
    /\ \E k \in Keys : expect[k].found

\* C8: the engine close is called exactly once for every handle a successful
\* open returned and the wrapper no longer holds, and never for the one it
\* holds; close and drop leave the handle Unopened, and on an Unopened handle
\* they make no engine call.
C8_CloseOncePerHandle ==
    /\ \A h \in 1..MaxOpens :
          closeCount[h] = (IF h < nextDb /\ h # db THEN 1 ELSE 0)
    /\ ~dbAlive => db = None
    /\ last.op \in {"close", "drop_db"} =>
          /\ db = None
          /\ last.res = "Unit"
          /\ last.calls = (IF last.preDb = None THEN <<>> ELSE <<"leveldb_close">>)

C8_Witness ==
    /\ last.op = "close" /\ last.preDb = None /\ last.calls = <<>>
    /\ nextDb > 2
    /\ \A h \in 1..(nextDb - 1) : closeCount[h] = 1

\* C9: once a wrapper is dropped, every native handle it obtained from the
\* engine has been released: no database handle stays open after the drop of
\* the Database and no batch handle stays alive after the drop of the
\* WriteBatch, whether or not close or destroy was called and also when the
\* drop runs while a panic unwinds.
C9_NoLeakAfterDrop ==
    /\ ~dbAlive => (liveDb = {} /\ \A h \in 1..(nextDb - 1) : closeCount[h] >= 1)
    /\ ~batchAlive =>
          (liveBatch = {} /\ \A h \in 1..(nextBatch - 1) : destroyCount[h] >= 1)

C9_Witness ==
    /\ ~dbAlive /\ ~batchAlive
    /\ last.op = "drop_db" /\ last.calls = <<"leveldb_close">>
    /\ nextBatch > 1 /\ liveBatch = {} /\ liveDb = {}

\* C10: destroy releases the native batch handle if one is held and leaves
\* the batch Empty; no handle is destroyed twice, so a second destroy, or the
\* drop after a destroy, makes no engine call; clear and destroy on a batch
\* without a handle make no engine call and do not fail, and clear keeps the
\* handle.
C10_DestroyClearIdempotent ==
    /\ \A h \in 1..MaxCreates :
          destroyCount[h] = (IF h < nextBatch /\ h # batch THEN 1 ELSE 0)
    /\ last.op \in {"destroy", "drop_batch"} =>
          /\ batch = None
          /\ last.res = "Unit"
          /\ last.calls = (IF last.preBatch = None THEN <<>>
                           ELSE <<"leveldb_writebatch_destroy">>)
    /\ last.op = "clear" =>
          /\ batch = last.preBatch
          /\ last.res = "Unit"
          /\ last.calls = (IF last.preBatch = None THEN <<>>
                           ELSE <<"leveldb_writebatch_clear">>)

C10_Witness ==
    /\ last.op \in {"destroy", "drop_batch"} /\ last.preBatch = None
    /\ last.calls = <<>>
    /\ nextBatch > 1 /\ destroyCount[1] = 1

\* C11: once allocated, the native handle of a batch stays the same live
\* handle until destroy or drop: clear and write, successful or failed,
\* neither destroy nor replace it, and a put on a batch that holds a handle
\* makes no engine create call.
C11_HandleKept ==
    [][/\ (batch # None /\ batch' # batch) =>
             (last'.op \in {"destroy", "drop_batch"} /\ batch' = None)
       /\ (batch # None /\ last'.op \notin {"destroy", "drop_batch"}) =>
             (batch' = batch /\ batch \in liveBatch')
       /\ (batch # None /\ last'.op = "put" /\ last' # last) =>
             /\ last'.res = "Unit"
             /\ last'.calls = <<"leveldb_writebatch_put">>
             /\ nextBatch' = nextBatch
      ]_vars

C11_Witness ==
    /\ last.op = "put" /\ last.res = "Unit"
    /\ last.preBatch # None /\ last.prePending = <<>>
    /\ batch = last.preBatch /\ nextBatch = 2
    /\ \E k \in Keys : expect[k].found

\* C12: write on an open db with a batch that holds no native handle returns
\* Ok, makes no engine call, leaves the store as it was and the batch Empty.
C12_WriteEmptyBatchNoOp ==
    [][(last'.op = "write" /\ last'.preBatch = None /\ last'.preDb # None) =>
         /\ last'.res = "Ok"
         /\ last'.calls = <<>>
         /\ store' = store
         /\ batch' = None
         /\ liveBatch' = liveBatch
         /\ nextBatch' = nextBatch
      ]_vars

C12_Witness ==
    /\ last.op = "write" /\ last.preBatch = None /\ last.preDb # None
    /\ last.res = "Ok" /\ last.calls = <<>>
    /\ \E k \in Keys : store[k].found

\* C18: init on a batch that already holds a native handle panics without
\* an engine create call and leaves the handle; on an Empty batch, one
\* emptied by destroy included, it makes exactly one create call and then
\* holds that one handle.
C18_InitPanicsWhenHeld ==
    /\ (last.op = "init" /\ last.preBatch # None) =>
          /\ last.res = "Panic"
          /\ last.calls = <<>>
          /\ batch = last.preBatch
          /\ liveBatch = {batch}
    /\ (last.op = "init" /\ last.preBatch = None) =>
          /\ last.calls = <<"leveldb_writebatch_create">>
          /\ last.res = "Unit" => (batch # None /\ liveBatch = {batch})
          /\ last.res # "Unit" => (batch = None /\ liveBatch = {})

C18_Witness ==
    /\ last.op = "init" /\ last.res = "Unit" /\ last.preBatch = None
    /\ batch = 2 /\ destroyCount[1] = 1

\* C19: a batch holds a native handle iff a put or an init has succeeded
\* since construction or since the last destroy: only put and init take it
\* from Empty to holding a handle and only destroy and drop take it back;
\* new, clear, destroy and drop make no engine create call, the first put
\* on an Empty batch makes exactly one, and the batch never has more than
\* one live native handle.
C19_LazyHandle ==
    /\ [](/\ liveBatch = (IF batch = None THEN {} ELSE {batch})
          /\ last.op \in {"new", "clear", "destroy", "drop_batch"} =>
                \A i \in 1..Len(last.calls) :
                    last.calls[i] # "leveldb_writebatch_create"
          /\ (last.op = "put" /\ last.preBatch = None /\ last.res = "Unit") =>
                /\ last.calls = <<"leveldb_writebatch_create",
                                  "leveldb_writebatch_put">>
                /\ batch # None)
    /\ [][/\ (batch = None /\ batch' # None) =>
                 (last'.op \in {"put", "init"} /\ last'.res = "Unit")
          /\ (batch # None /\ batch' = None) =>
                 last'.op \in {"destroy", "drop_batch"}
          /\ (last' # last /\ last'.op \in {"put", "init"} /\ last'.res = "Unit") =>
                 batch' # None
          /\ (last' # last /\ last'.op \in {"destroy", "drop_batch"}) =>
                 batch' = None
         ]_vars

C19_Witness ==
    /\ last.op = "put" /\ last.preBatch = None /\ last.res = "Unit"
    /\ batch = 2 /\ liveBatch = {2} /\ destroyCount[1] = 1

\* C13: when the engine fails to open the store, open returns Err carrying
\* the engine's message, binds no native handle and leaves the handle
\* Unopened; an open that follows does not panic and a drop that follows
\* makes no engine close call.
C13_FailedOpenStaysUnopened ==
    /\ [](( last.op = "open" /\ last.err) =>
            /\ last.res = "Err"
            /\ last.msg \in Messages /\ last.msg = last.errptr
            /\ last.preDb = None
            /\ db = None
            /\ liveDb = {})
    /\ [][(last.op = "open" /\ last.res = "Err") =>
            /\ last'.op = "open" => last'.res \in {"Ok", "Err"}
            /\ last'.op = "drop_db" => last'.calls = <<>>
         ]_vars

C13_Witness ==
    /\ last.op = "open" /\ last.res = "Err" /\ last.msg = "IO error"
    /\ db = None /\ nextDb = 2 /\ closeCount[1] = 1

\* the transitions Unopened -> Open the handle has made: every successful
\* open binds the next handle of the engine
OpenTransitions == nextDb - 1

\* C15 as stated: over the lifetime of one Database the transition
\* Unopened -> Open happens once, not again.
C15_OpensOnlyOnce == OpenTransitions <= 1

\* C15, amended: Unopened -> Open happens only through an open call that
\* returns Ok, and it may happen again after a close; an Open handle keeps
\* its native handle until Open -> Unopened, which happens only through
\* close, explicit or on drop.
C15_TransitionsOnlyByOpenAndClose ==
    [][/\ (db = None /\ db' # None) =>
             (last'.op = "open" /\ last'.res = "Ok" /\ db' \in liveDb')
       /\ (db # None /\ db' # db) =>
             (db' = None /\ last'.op \in {"close", "drop_db"})
      ]_vars

C15_Witness ==
    /\ last.op = "open" /\ last.res = "Ok" /\ last.preDb = None
    /\ db = 2 /\ closeCount[1] = 1

\* the number of times a call made the engine call of its operation
EngineOp(op) ==
    CASE op = "open" -> "leveldb_open"
      [] op = "write" -> "leveldb_write"
      [] op = "get" -> "leveldb_get"
      [] OTHER -> "none"
OpCalls(call) ==
    Cardinality({i \in 1..Len(call.calls) : call.calls[i] = EngineOp(call.op)})

\* what C20 says of every open, write and get that returns, but for the
\* number of engine calls: Err iff the engine left a non-null error string,
\* the Error built from exactly that string, Ok iff it stayed null
ErrIffErrorString ==
    /\ last.res = "Err" <=> last.errptr # NullPtr
    /\ last.res = "Err" => (last.msg = last.errptr /\ last.msg \in Messages)
    /\ last.res = "Ok" => last.msg = NoError

\* C20 as stated: every open, write and get that returns has called the
\* engine exactly once.
C20_ExactlyOneEngineCall ==
    (last.op \in {"open", "write", "get"} /\ last.res \in {"Ok", "Err"}) =>
        /\ OpCalls(last) = 1
        /\ ErrIffErrorString

\* C20, amended: every open, write and get that returns has called the
\* engine exactly once, without retry, except a write of a batch that holds
\* no handle, which makes no engine call and returns Ok; it returns Err iff
\* the engine left a non-null error string, the Error being built from
\* exactly that string, and Ok iff the string stayed null.
C20_AtMostOneEngineCall ==
    (last.op \in {"open", "write", "get"} /\ last.res \in {"Ok", "Err"}) =>
        /\ OpCalls(last) = (IF last.op = "write" /\ last.preBatch = None
                             THEN 0 ELSE 1)
        /\ last.calls =
              (CASE last.op = "open" -> <<"leveldb_open">>
                 [] last.op = "get" -> <<"leveldb_get">>
                 [] last.op = "write" ->
                      IF last.preBatch = None THEN <<>>
                      ELSE <<"leveldb_write", "leveldb_writebatch_clear">>)
        /\ ErrIffErrorString

C20_Witness ==
    /\ last.op = "write" /\ last.res = "Err" /\ last.msg = "Corruption"
    /\ last.errptr = "Corruption" /\ OpCalls(last) = 1
    /\ last.prePending # <<>>

\* the bytes the store holds for a key: its value, or none for a key never
\* written
StoredBytes(k) == IF store[k].found THEN store[k].val ELSE <<>>

\* C14: get is all-or-nothing.  When the engine reports a failure the call
\* is Err with the engine's message and hands no Octets to the caller, and
\* no engine allocation is left; otherwise it is Ok without a message and
\* hands exactly one Octets, of the length the engine reported, that views
\* the stored bytes.
C14_GetAllOrNothing ==
    (last.op = "get" /\ last.res # "Panic") =>
        IF last.err
        THEN /\ last.res = "Err"
             /\ last.msg \in Messages
             /\ octets = <<>>
             /\ valLive = 0
        ELSE /\ last.res = "Ok"
             /\ last.msg = NoError
             /\ octets = <<last.val>>
             /\ asked = <<last.key>>
             /\ last.val.len_ = Len(StoredBytes(last.key))
             /\ Deref(last.val) = StoredBytes(last.key)

C14_Witness ==
    /\ last.op = "get" /\ last.res = "Err" /\ last.err
    /\ store[last.key].found
    /\ octets = <<>>

\* the engine allocations the held Octets own
HeldAllocations == Cardinality({i \in 1..Len(octets) : octets[i].ptr_ = "Some"})

\* C16: an Octets frees its engine allocation exactly once, on drop.  The
\* live engine allocations are exactly those of the held present Octets
\* (none freed early, none freed twice, none left after the drop); the drop
\* of a present Octets, of length zero included, makes one leveldb_free
\* call and the drop of an absent one makes none.
C16_FreedOnceOnDrop ==
    /\ valLive = HeldAllocations
    /\ last.op = "drop_octets" =>
          last.calls = (IF last.val.ptr_ = "Some" THEN <<"leveldb_free">> ELSE <<>>)

C16_Witness ==
    /\ last.op = "drop_octets"
    /\ last.val.ptr_ = "Some" /\ last.val.len_ = 0
    /\ last.calls = <<"leveldb_free">>
    /\ Len(octets) = 1 /\ octets[1].ptr_ = "None"
    /\ valLive = 0

\* C17: the byte view and the equality of an Octets depend only on its
\* bytes.  Every held Octets views the bytes stored for its key, the empty
\* view for a key never written and for a key stored with the empty value
\* alike, whether absent or present; two Octets compare equal iff the
\* bytes of their keys are equal.
C17_EqualIffSameBytes ==
    /\ \A i \in 1..Len(octets) : Deref(octets[i]) = StoredBytes(asked[i])
    /\ last.op = "eq" =>
          (last.res = "True" <=> StoredBytes(asked[1]) = StoredBytes(asked[2]))

C17_Witness ==
    /\ last.op = "eq" /\ last.res = "True"
    /\ ~store[asked[1]].found /\ octets[1].ptr_ = "None"
    /\ store[asked[2]].found /\ octets[2].ptr_ = "Some" /\ octets[2].len_ = 0

\* the bytes get returns for a key on a store, on an engine that gives a
\* null (n) or a non-null pointer for an empty value
GetBytes(st, k, n) == Deref(GetResult(leveldb_get(st, k, FALSE, n), k).val)

\* the operations on a WriteBatch alone
BatchOps == {"init", "put", "clear", "destroy", "drop_batch"}

\* C23: operations on a WriteBatch alone do not change the store.  No step
\* of init, put, clear, destroy or drop of a batch changes the bytes get
\* returns for any key, and a step that changes them is a write.
C23_BatchOpsKeepStore ==
    [][LET changed == /\ store' # store
                      /\ \E k \in Keys, n \in BOOLEAN :
                            GetBytes(store', k, n) # GetBytes(store, k, n)
       IN  /\ last'.op \in BatchOps => ~changed
           /\ changed => last'.op = "write"]_vars

C23_Witness ==
    /\ last.op = "clear"
    /\ db # None
    /\ Len(last.prePending) = 2
    /\ \E k \in PutKeys(last.prePending) :
          store[k].found /\ LastPut(last.prePending, k) # store[k].val

\* C24: the length of an Octets is fixed at construction.  The read-only
\* and the mutable view of every held Octets have the length the engine
\* reported for its key, 0 for an absent one; a write through the mutable
\* view changes no length and no pointer, whichever Octets it goes to; and
\* the drop of an Octets that was written through still frees its one
\* allocation.
C24_LengthFixed ==
    /\ [](/\ \A i \in 1..Len(octets) :
               /\ Len(Deref(octets[i])) = Len(StoredBytes(asked[i]))
               /\ Len(DerefMut(octets[i])) = Len(StoredBytes(asked[i]))
               /\ octets[i].len_ = Len(StoredBytes(asked[i]))
               /\ octets[i].ptr_ = "None" => Len(Deref(octets[i])) = 0
          /\ valLive = HeldAllocations
          /\ last.op = "drop_octets" =>
                last.calls = (IF last.val.ptr_ = "Some" THEN <<"leveldb_free">>
                              ELSE <<>>))
    /\ [][last'.op = "store" =>
             /\ Len(octets') = Len(octets)
             /\ \A i \in 1..Len(octets) :
                   /\ octets'[i].ptr_ = octets[i].ptr_
                   /\ octets'[i].len_ = octets[i].len_
                   /\ Len(Deref(octets'[i])) = Len(Deref(octets[i]))]_vars

C24_Witness ==
    /\ last.op = "drop_octets"
    /\ Deref(last.val) = <<7, 9>>
    /\ StoredBytes(last.key) = <<7, 8>>
    /\ last.calls = <<"leveldb_free">>
    /\ valLive = HeldAllocations

\* C25: the WriteBatch of write_batch.rs and the WriteBatch of lib.rs are
\* equivalent under put, clear, destroy and drop when the engine's
\* allocation succeeds.  From every state either of them can reach, each
\* operation of one is step for step the operation of the other: the same
\* handle held afterwards, the same engine calls in the same order, the
\* same entries in the engine's batch; and after the drop no handle is
\* live.
C25_LegacyEquivalent ==
    /\ [][/\ \A key \in Keys, value \in Values :
               Put(key, value, FALSE) <=> LegacyPut(key, value)
          /\ Clear <=> LegacyClear
          /\ Destroy <=> LegacyDestroy
          /\ DropBatch <=> LegacyDrop]_vars
    /\ [](~batchAlive => batch = None /\ liveBatch = {})

C25_Witness ==
    /\ last.op = "drop_batch"
    /\ last.calls = <<"leveldb_writebatch_destroy">>
    /\ Len(last.prePending) = 2
    /\ nextBatch = 3
    /\ liveBatch = {}

\* C22: the open configuration is created at most once per process, on
\* first use.  The engine creates at most one options object and destroys
\* none, also when several threads open at once; none exists before the
\* first open; every leveldb_open receives that one object with
\* create_if_missing on, error_if_exists off and paranoid_checks on; and
\* once the Lazy cell holds it no step changes it.
C22_OptionsOnce ==
    /\ [](/\ options.created <= 1
          /\ options.destroyed = 0
          /\ options.state = "uninit" => options.created = 0 /\ passed = {}
          /\ \A p \in passed :
                /\ p.obj = 1
                /\ p.flags.create_if_missing
                /\ ~p.flags.error_if_exists
                /\ p.flags.paranoid_checks)
    /\ [][options.state = "ready" => options' = options]_vars

C22_Witness ==
    /\ Cardinality({t \in Openers : tpc[t] = "call"}) = 2
    /\ \E t \in Openers : tpc[t] = "force"
    /\ passed # {}
    /\ options.created = 1

\* C21: with one Database shared by reference among threads that each run
\* get and write with a WriteBatch of their own, in every interleaving the
\* handle of every engine call in flight is the one the Database holds, is
\* open and was never closed, and no step that closes a handle is taken
\* while a get or a write is in flight.
C21_NoCloseInFlight ==
    /\ [](\A t \in Threads :
             inflight[t] # None =>
                 /\ inflight[t] = db
                 /\ inflight[t] \in liveDb
                 /\ closeCount[inflight[t]] = 0)
    /\ [][closeCount' # closeCount => \A t \in Threads : inflight[t] = None]_vars

C21_Witness ==
    /\ tpc[1] = "get" /\ tpc[2] = "write"
    /\ inflight[1] = 2 /\ inflight[2] = 2
    /\ closeCount[1] = 1
    /\ liveDb = {2}

====
